---- MODULE Spec2Model ----
(***************************************************************************)
(* Model of gdqbot (src/main.rs, src/error.rs): a poll loop that watches   *)
(* one Twitch channel, persists the current game to a key-value store and  *)
(* announces game changes through webhooks.                                *)
(*                                                                         *)
(* Strings that the code inspects character by character (stream titles,   *)
(* the OFFLINE_CHECK_COUNT environment variable) are sequences of          *)
(* one-character strings; game names, which the code only compares for     *)
(* equality, are plain strings.                                            *)
(***************************************************************************)
EXTENDS Integers, Sequences, FiniteSets, TLC

VARIABLES
    pc,                   \* position of main(): init_helix, get_db, poll, join, exited
    OFFLINE_CHECK_COUNT,  \* the environment variable read by GdqBot::new
    access_token,         \* GdqBot.access_token is Some
    current_game,         \* GdqBot.current_game
    webhooks,             \* GdqBot.webhooks, the sinks numbered 1, 2, ..
    offline_count,        \* GdqBot.offline_count
    offline_threshold,    \* GdqBot.offline_threshold
    kvstore,              \* content of the key-value store under KVSTORE_KEY
    db_read,              \* outcome of the startup read of the store
    obs,                  \* what the stream query of the latest tick returned
    streak,               \* consecutive Offline observations since the last Online one
    persist_calls,        \* games passed to set_current_game_to_db in this tick
    notify_calls,         \* (game, title) passed to send_game_change_message in this tick
    persist_result,       \* outcome of this tick's set_current_game_to_db
    notify_result,        \* outcome of this tick's send_game_change_message
    attempted,            \* sinks this tick's send_game_change_message contacted
    result,               \* the error main() ended with
    exit_code,            \* process exit status, -1 while the process runs
    same_as_last,         \* this tick's observation equals the one of the tick before
    online_ticks,         \* Online observations so far: 0, 1, or 2 for "several"
    persist_failed,       \* some set_current_game_to_db has failed so far
    stop_requested        \* the supervisor has asked the process to stop

vars == <<pc, OFFLINE_CHECK_COUNT, access_token, current_game, webhooks,
          offline_count, offline_threshold, kvstore, db_read, obs, streak,
          persist_calls, notify_calls, persist_result, notify_result,
          attempted, result, exit_code, same_as_last, online_ticks,
          persist_failed, stop_requested>>

(***************************************************************************)
(* Bounds and program constants                                            *)
(***************************************************************************)
MaxThreshold == 3
MaxSinks == 2
DEFAULT_OFFLINE_THRESHOLD == 3
\* u32::MAX, 4294967295, as decimal digits (it is wider than the model
\* checker's integers)
U32_MAX == <<4, 2, 9, 4, 9, 6, 7, 2, 9, 5>>

Max(a, b) == IF a >= b THEN a ELSE b

\* offline_count never passes the threshold in force; the cap only keeps a
\* loop that fails to stop finite.
MaxCount == Max(MaxThreshold, DEFAULT_OFFLINE_THRESHOLD) + 1

Games == {"", "Celeste", "Chrono Trigger"}

Titles ==
    { <<"G", "D", "Q">>,
      <<"A", "n", "y", "%", " ", "R", "E", "R", "U", "N">>,
      <<"R", "e", "R", "u", "N", "s">>,
      <<"r", "e", "r", "e", "r", "u", "n">>,
      <<"r", "e", " ", "r", "u", "n">>,
      <<>> }

(***************************************************************************)
(* String helpers                                                          *)
(***************************************************************************)
UpperCase == <<"A", "B", "C", "D", "E", "F", "G", "H", "I", "J", "K", "L", "M",
               "N", "O", "P", "Q", "R", "S", "T", "U", "V", "W", "X", "Y", "Z">>
LowerCase == <<"a", "b", "c", "d", "e", "f", "g", "h", "i", "j", "k", "l", "m",
               "n", "o", "p", "q", "r", "s", "t", "u", "v", "w", "x", "y", "z">>
Digits == <<"0", "1", "2", "3", "4", "5", "6", "7", "8", "9">>

LowerTable ==
    [c \in {UpperCase[i] : i \in 1..26} |->
        LowerCase[CHOOSE i \in 1..26 : UpperCase[i] = c]]

ToLowerChar(c) == IF c \in DOMAIN LowerTable THEN LowerTable[c] ELSE c

\* str::to_lowercase
ToLowercase(s) == [i \in 1..Len(s) |-> ToLowerChar(s[i])]

\* str::contains
Contains(haystack, needle) ==
    \E i \in 0..(Len(haystack) - Len(needle)) :
        SubSeq(haystack, i + 1, i + Len(needle)) = needle

IsDigit(c) == \E i \in 1..10 : Digits[i] = c
DigitValue(c) == (CHOOSE i \in 1..10 : Digits[i] = c) - 1

RECURSIVE DecimalValue(_)
DecimalValue(s) ==
    IF s = <<>> THEN 0
    ELSE 10 * DecimalValue(SubSeq(s, 1, Len(s) - 1)) + DigitValue(s[Len(s)])

RECURSIVE StripZeros(_)
StripZeros(s) ==
    IF s # <<>> /\ s[1] = "0" THEN StripZeros(Tail(s)) ELSE s

\* the digit string denotes a number above u32::MAX
ExceedsU32(s) ==
    LET d == StripZeros(s)
    IN  \/ Len(d) > Len(U32_MAX)
        \/ /\ Len(d) = Len(U32_MAX)
           /\ \E i \in 1..Len(d) :
                /\ DigitValue(d[i]) > U32_MAX[i]
                /\ \A j \in 1..(i - 1) : DigitValue(d[j]) = U32_MAX[j]

\* <u32 as FromStr>::from_str: an optional "+", then one or more digits,
\* and the value must fit 32 bits.
ParseU32(s) ==
    LET body == IF s # <<>> /\ s[1] = "+" THEN Tail(s) ELSE s
    IN  IF body = <<>> \/ \E i \in 1..Len(body) : ~IsDigit(body[i])
        THEN [ok |-> FALSE, value |-> 0]
        ELSE IF ExceedsU32(body)
             THEN [ok |-> FALSE, value |-> 0]
             ELSE [ok |-> TRUE, value |-> DecimalValue(body)]

(***************************************************************************)
(* Values                                                                  *)
(***************************************************************************)
\* OFFLINE_CHECK_COUNT: unset, or one of these texts.
EnvTexts ==
    { <<Digits[n + 1]>> : n \in 0..MaxThreshold } \cup
    { <<"+", "2">>, <<"-", "1">>, <<" ", "3">>, <<>>,
      <<"4", "2", "9", "4", "9", "6", "7", "2", "9", "6">> }

EnvValues ==
    {[set |-> FALSE, text |-> <<>>]} \cup {[set |-> TRUE, text |-> t] : t \in EnvTexts}

\* The store holds a string under KVSTORE_KEY, or nothing.
StoreValues ==
    {[present |-> FALSE, value |-> ""]} \cup {[present |-> TRUE, value |-> g] : g \in Games}

\* helix_client.req_get(..): an error, or the list of streams of the channel
\* (empty when the channel is not live).
Stream(game, title) == [game_name |-> game, title |-> title]
Responses ==
    {[kind |-> "Err", data |-> <<>>], [kind |-> "Ok", data |-> <<>>]} \cup
    {[kind |-> "Ok", data |-> <<Stream(g, t)>>] : g \in Games, t \in Titles}

NoObs == [kind |-> "None", game |-> "", title |-> <<>>]
QueryErrorObs == [kind |-> "QueryError", game |-> "", title |-> <<>>]
OfflineObs == [kind |-> "Offline", game |-> "", title |-> <<>>]
OnlineObs(game, title) == [kind |-> "Online", game |-> game, title |-> title]

\* GdqBotError values main() can end with (src/error.rs).
NoResult == [kind |-> "None", count |-> 0, title |-> <<>>]
ErrorOf(kind) == [kind |-> kind, count |-> 0, title |-> <<>>]
\* the loop ends with Ok(()) at the threshold instead of an error
StreamOfflineAsOk(count) == [kind |-> "None", count |-> 0, title |-> <<>>]

StreamOffline(count) == [kind |-> "StreamOffline", count |-> count, title |-> <<>>]
StreamRerun(title) == [kind |-> "StreamRerun", count |-> 0, title |-> title]

SinkOutcomes == {"ok", "from_url_err", "execute_err"}

(***************************************************************************)
(* Decisions of the code                                                   *)
(***************************************************************************)
\* a text that does not parse counts as 0 (unwrap_or_default on the parse)
ParseOfflineThresholdOrZero(env) ==
    IF env.set THEN ParseU32(env.text).value ELSE DEFAULT_OFFLINE_THRESHOLD

\* GdqBot::new: env::var(..).ok().and_then(|s| s.parse().ok()).unwrap_or(DEFAULT)
ParseOfflineThreshold(env) ==
    IF env.set /\ ParseU32(env.text).ok
    THEN ParseU32(env.text).value
    ELSE DEFAULT_OFFLINE_THRESHOLD

\* the error of the query is not looked at
QueryFailedNever(resp) == FALSE

\* req_get(..).await? : an error response leaves the function
QueryFailed(resp) == resp.kind = "Err"

\* response.is_empty()
IsOffline(resp) == resp.data = <<>>

\* the title is searched as it is, without to_lowercase()
IsRerunCaseSensitive(stream_title) == Contains(stream_title, <<"r", "e", "r", "u", "n">>)

\* stream_title.to_lowercase().contains("rerun")
IsRerun(stream_title) == Contains(ToLowercase(stream_title), <<"r", "e", "r", "u", "n">>)

\* the comparison with the stored game is missing
GameChangedAlways(game, current) == TRUE

\* a game is not announced while the stored game is unknown
GameChangedFromKnown(game, current) == game # current /\ current # ""

\* game.ne(&self.current_game)
GameChanged(game, current) == game # current

\* the counter is assigned instead of incremented
OfflineCountAssigned(count) == 1

\* self.offline_count += 1
OfflineCountAfter(count) == count + 1

\* the comparison is == instead of >=
ThresholdReachedEq(count, threshold) == count = threshold

\* self.offline_count >= self.offline_threshold
ThresholdReached(count, threshold) == count >= threshold

\* the StreamRerun arm of the match is missing
MainExitCodeRerunFails(res) ==
    IF res.kind \in {"None", "StreamOffline"} THEN 0 ELSE 1

\* the match in main(): exit(0) for StreamOffline and StreamRerun, Ok(()) is
\* status 0, any other Err(e) is returned from main (status 1)
MainExitCode(res) ==
    IF res.kind \in {"None", "StreamOffline", "StreamRerun"} THEN 0 ELSE 1

\* send_game_change_message: the sinks contacted and the result, given the
\* outcome each sink would have.  The `?` on from_url and on execute leaves
\* the loop at the first sink that fails.
RECURSIVE SendLoop(_, _, _)
SendLoop(hooks, outcomes, i) ==
    IF i > Len(hooks) THEN [contacted |-> <<>>, result |-> "Ok"]
    ELSE IF outcomes[i] # "ok"
         THEN [contacted |-> <<hooks[i]>>, result |-> "SerenityError"]
         ELSE LET rest == SendLoop(hooks, outcomes, i + 1)
              IN  [contacted |-> <<hooks[i]>> \o rest.contacted, result |-> rest.result]

SendGameChangeMessageResult(hooks, outcomes) == SendLoop(hooks, outcomes, 1)

\* set_current_game_to_db: the POST succeeds with status 200, or fails in
\* transport, or answers another status.
PersistOutcomes == {"Ok", "ReqwestError", "Other"}

StoreAfterPersist(store, game, outcome) ==
    IF outcome = "Ok" THEN [present |-> TRUE, value |-> game] ELSE store

(***************************************************************************)
(* Initial state: after GdqBot::new()                                      *)
(***************************************************************************)
NewBot(env, hooks, store) ==
    /\ OFFLINE_CHECK_COUNT = env
    /\ offline_threshold = ParseOfflineThreshold(env)
    /\ webhooks = hooks
    /\ kvstore = store
    /\ pc = "init_helix"
    /\ access_token = FALSE
    /\ current_game = ""
    /\ offline_count = 0
    /\ db_read = "none"
    /\ obs = NoObs
    /\ streak = 0
    /\ persist_calls = <<>>
    /\ notify_calls = <<>>
    /\ persist_result = "None"
    /\ notify_result = "None"
    /\ attempted = <<>>
    /\ result = NoResult
    /\ exit_code = -1
    /\ same_as_last = FALSE
    /\ online_ticks = 0
    /\ persist_failed = FALSE
    /\ stop_requested = FALSE

\* new() configures exactly one sink, WEBHOOK_URL.
Init ==
    \E env \in EnvValues, store \in StoreValues :
        NewBot(env, <<1>>, store)

(***************************************************************************)
(* main(): leaving with an error                                           *)
(***************************************************************************)
Exit(res) ==
    /\ result' = res
    /\ exit_code' = MainExitCode(res)
    /\ pc' = "exited"

(***************************************************************************)
(* Startup                                                                 *)
(***************************************************************************)
\* bot.init_helix().await?
InitHelix ==
    /\ pc = "init_helix"
    /\ \E ok \in BOOLEAN :
        IF ok
        THEN /\ access_token' = TRUE
             /\ pc' = "get_db"
             /\ UNCHANGED <<result, exit_code>>
        ELSE /\ Exit(ErrorOf("HelixAccessError"))
             /\ UNCHANGED access_token
    /\ UNCHANGED <<OFFLINE_CHECK_COUNT, current_game, webhooks, offline_count,
                   offline_threshold, kvstore, db_read, obs, streak,
                   persist_calls, notify_calls, persist_result, notify_result,
                   attempted, same_as_last, online_ticks, persist_failed,
                   stop_requested>>

\* bot.get_current_game_from_db().await? : the request fails in transport,
\* answers a status other than 200, answers a body that is not a JSON string,
\* or answers the stored string.  Every failure is returned from main by `?`.
DbReadOutcomes == {"ok", "unreachable", "non200", "undecodable"}

DbReadError(outcome) ==
    IF outcome = "non200" THEN ErrorOf("Other") ELSE ErrorOf("ReqwestError")

GetCurrentGameFromDb ==
    /\ pc = "get_db"
    /\ \E outcome \in DbReadOutcomes :
        /\ outcome = "ok" => kvstore.present
        /\ db_read' = outcome
        /\ IF outcome = "ok"
           THEN /\ current_game' = kvstore.value
                /\ pc' = "poll"
                /\ UNCHANGED <<result, exit_code>>
           ELSE /\ Exit(DbReadError(outcome))
                /\ UNCHANGED current_game
    /\ UNCHANGED <<OFFLINE_CHECK_COUNT, access_token, webhooks, offline_count,
                   offline_threshold, kvstore, obs, streak, persist_calls,
                   notify_calls, persist_result, notify_result, attempted,
                   same_as_last, online_ticks, persist_failed, stop_requested>>

(***************************************************************************)
(* The poll loop: GdqBot::run and get_current_game_from_twitch             *)
(***************************************************************************)
\* What the platform answered, recorded as it is (not as the code reads it).
ObservationOf(resp) ==
    IF resp.kind = "Err" THEN QueryErrorObs
    ELSE IF Len(resp.data) = 0 THEN OfflineObs
    ELSE OnlineObs(resp.data[1].game_name, resp.data[1].title)

StreakAfter(o) ==
    IF o.kind = "Offline" THEN streak + 1
    ELSE IF o.kind = "Online" THEN 0
    ELSE streak

OnlineTicksAfter(o) ==
    IF o.kind = "Online" /\ online_ticks < 2 THEN online_ticks + 1 ELSE online_ticks

\* What every tick does first: wait for the interval, query the stream.
Query(resp) ==
    /\ offline_count < MaxCount
    /\ obs' = ObservationOf(resp)
    /\ streak' = StreakAfter(ObservationOf(resp))
    /\ same_as_last' = (ObservationOf(resp) = obs)
    /\ online_ticks' = OnlineTicksAfter(ObservationOf(resp))
    /\ persist_calls' = <<>>
    /\ notify_calls' = <<>>
    /\ persist_result' = "None"
    /\ notify_result' = "None"
    /\ attempted' = <<>>
    /\ UNCHANGED <<OFFLINE_CHECK_COUNT, access_token, webhooks,
                   offline_threshold, kvstore, db_read, persist_failed,
                   stop_requested>>

\* req_get(..).await? fails: `?` in get_current_game_from_twitch and `?` in
\* run hand the error to main.
TickQueryError ==
    /\ pc = "poll"
    /\ \E resp \in Responses :
            /\ QueryFailed(resp)
            /\ Query(resp)
            /\ Exit(ErrorOf("HelixError"))
            /\ UNCHANGED <<current_game, offline_count>>

\* Ok(None): the stream is offline.
TickOffline ==
    /\ pc = "poll"
    /\ \E resp \in Responses :
            /\ ~QueryFailed(resp)
            /\ IsOffline(resp)
            /\ Query(resp)
            /\ offline_count' = OfflineCountAfter(offline_count)
            /\ IF ThresholdReached(OfflineCountAfter(offline_count), offline_threshold)
               THEN Exit(StreamOffline(OfflineCountAfter(offline_count)))
               ELSE /\ pc' = "poll"
                    /\ UNCHANGED <<result, exit_code>>
            /\ UNCHANGED current_game

\* Err(StreamRerun(title)): returned before the game is looked at.
TickRerun ==
    /\ pc = "poll"
    /\ \E resp \in Responses :
            /\ ~QueryFailed(resp)
            /\ ~IsOffline(resp)
            /\ IsRerun(Head(resp.data).title)
            /\ Query(resp)
            /\ Exit(StreamRerun(Head(resp.data).title))
            /\ UNCHANGED <<current_game, offline_count>>

\* The stream is online with the game already known: no join, the game is
\* stored again and run resets the counter.
TickSameGame ==
    /\ pc = "poll"
    /\ \E resp \in Responses :
            /\ ~QueryFailed(resp)
            /\ ~IsOffline(resp)
            /\ ~IsRerun(Head(resp.data).title)
            /\ ~GameChanged(Head(resp.data).game_name, current_game)
            /\ Query(resp)
            /\ current_game' = Head(resp.data).game_name
            /\ offline_count' = 0
            /\ pc' = "poll"
            /\ UNCHANGED <<result, exit_code>>

\* The game changed: tokio::join! starts both futures.
TickGameChanged ==
    /\ pc = "poll"
    /\ \E resp \in Responses :
            /\ ~QueryFailed(resp)
            /\ ~IsOffline(resp)
            /\ ~IsRerun(Head(resp.data).title)
            /\ GameChanged(Head(resp.data).game_name, current_game)
            /\ Query(resp)
            /\ pc' = "join"
            /\ UNCHANGED <<current_game, offline_count, result, exit_code>>

\* the save is dropped once the other arm has failed (try_join!)
SetCurrentGameToDbUnlessNotifyFailed ==
    /\ pc = "join"
    /\ persist_result = "None"
    /\ notify_result \in {"None", "Ok"}
    /\ \E outcome \in PersistOutcomes :
        /\ persist_result' = outcome
        /\ kvstore' = StoreAfterPersist(kvstore, obs.game, outcome)
        /\ persist_failed' = (persist_failed \/ outcome # "Ok")
    /\ persist_calls' = Append(persist_calls, obs.game)
    /\ UNCHANGED <<pc, OFFLINE_CHECK_COUNT, access_token, current_game, webhooks,
                   offline_count, offline_threshold, db_read, obs, streak,
                   notify_calls, notify_result, attempted, result, exit_code,
                   same_as_last, online_ticks, stop_requested>>

\* set_current_game_to_db(&game), one arm of the join
SetCurrentGameToDb ==
    /\ pc = "join"
    /\ persist_result = "None"
    /\ \E outcome \in PersistOutcomes :
        /\ persist_result' = outcome
        /\ kvstore' = StoreAfterPersist(kvstore, obs.game, outcome)
        /\ persist_failed' = (persist_failed \/ outcome # "Ok")
    /\ persist_calls' = Append(persist_calls, obs.game)
    /\ UNCHANGED <<pc, OFFLINE_CHECK_COUNT, access_token, current_game, webhooks,
                   offline_count, offline_threshold, db_read, obs, streak,
                   notify_calls, notify_result, attempted, result, exit_code,
                   same_as_last, online_ticks, stop_requested>>

\* send_game_change_message(&game, &stream_title), the other arm
SendGameChangeMessage ==
    /\ pc = "join"
    /\ notify_result = "None"
    /\ \E outcomes \in [1..Len(webhooks) -> SinkOutcomes] :
        LET sent == SendGameChangeMessageResult(webhooks, outcomes)
        IN  /\ attempted' = sent.contacted
            /\ notify_result' = sent.result
    /\ notify_calls' = Append(notify_calls, [game |-> obs.game, title |-> obs.title])
    /\ UNCHANGED <<pc, OFFLINE_CHECK_COUNT, access_token, current_game, webhooks,
                   offline_count, offline_threshold, kvstore, db_read, obs,
                   streak, persist_calls, persist_result, result, exit_code,
                   same_as_last, online_ticks, persist_failed, stop_requested>>

\* the results of the join are propagated with `?`
JoinVerdictPropagates(persisted, notified) ==
    IF persisted # "Ok" THEN persisted
    ELSE IF notified # "Ok" THEN notified
    ELSE "Continue"

\* What the tick does with the two results of the join: `let _ =` drops them.
JoinVerdict(persisted, notified) == "Continue"

\* the assignment after the join is missing
CommittedGameKept(game, current, persisted) == current

\* the new game is kept only when it was saved
CommittedGameIfPersisted(game, current, persisted) ==
    IF persisted = "Ok" THEN game ELSE current

\* self.current_game = game, whatever the join returned
CommittedGame(game, current, persisted) == game

\* Both arms are done: self.current_game = game, Ok(Some(..)), and run
\* resets the counter.
Commit ==
    /\ pc = "join"
    /\ persist_result # "None"
    /\ notify_result # "None"
    /\ IF JoinVerdict(persist_result, notify_result) = "Continue"
       THEN /\ current_game' = CommittedGame(obs.game, current_game, persist_result)
            /\ offline_count' = 0
            /\ pc' = "poll"
            /\ UNCHANGED <<result, exit_code>>
       ELSE /\ Exit(ErrorOf(JoinVerdict(persist_result, notify_result)))
            /\ UNCHANGED <<current_game, offline_count>>
    /\ UNCHANGED <<OFFLINE_CHECK_COUNT, access_token, webhooks,
                   offline_threshold, kvstore, db_read, obs, streak,
                   persist_calls, notify_calls, persist_result, notify_result,
                   attempted, same_as_last, online_ticks, persist_failed,
                   stop_requested>>

Next ==
    \/ InitHelix
    \/ GetCurrentGameFromDb
    \/ TickQueryError
    \/ TickOffline
    \/ TickRerun
    \/ TickSameGame
    \/ TickGameChanged
    \/ SetCurrentGameToDb
    \/ SendGameChangeMessage
    \/ Commit

Spec == Init /\ [][Next]_vars

\* The interval keeps ticking and every awaited call returns: the single
\* task of the program takes its next step whenever it has one.
LiveSpec == Init /\ [][Next]_vars /\ WF_vars(Next)

\* send_game_change_message over every list of up to MaxSinks sinks: the bot
\* as the struct allows it, with webhooks of any length.
SinkInit ==
    \E n \in 1..MaxSinks, store \in StoreValues :
        NewBot([set |-> FALSE, text |-> <<>>], [i \in 1..n |-> i], store)

SinkSpec == SinkInit /\ [][Next]_vars

\* A stop request of the supervisor, raised while the loop waits for the
\* next tick.  No statement of run() reads it.
RequestStop ==
    /\ pc = "poll"
    /\ ~stop_requested
    /\ stop_requested' = TRUE
    /\ UNCHANGED <<pc, OFFLINE_CHECK_COUNT, access_token, current_game, webhooks,
                   offline_count, offline_threshold, kvstore, db_read, obs,
                   streak, persist_calls, notify_calls, persist_result,
                   notify_result, attempted, result, exit_code, same_as_last,
                   online_ticks, persist_failed>>

StopNext == Next \/ RequestStop

StopSpec == Init /\ [][StopNext]_vars

(***************************************************************************)
(* Vocabulary of the properties                                            *)
(***************************************************************************)
RerunLetters == <<{"r", "R"}, {"e", "E"}, {"r", "R"}, {"u", "U"}, {"n", "N"}>>

\* the title has the letters r-e-r-u-n in a row, each in either case
ContainsRerunAnyCase(title) ==
    \E i \in 0..(Len(title) - 5) :
        \A k \in 1..5 : title[i + k] \in RerunLetters[k]

Graceful == {"StreamOffline", "StreamRerun"}

NoEffects(p, n) == p = <<>> /\ n = <<>>

(***************************************************************************)
(* C1: for every offline_threshold, the loop stops with StreamOffline(n)   *)
(* exactly on the tick where the number of consecutive Offline             *)
(* observations reaches offline_threshold, with n = offline_threshold, and *)
(* continues on every Offline tick where that number is still below it.    *)
(* Stated over the state an Offline tick leaves behind.                    *)
(***************************************************************************)
C1_StopsExactlyAtThreshold ==
    obs.kind = "Offline" =>
        /\ (result.kind = "StreamOffline") <=> (streak = offline_threshold)
        /\ result.kind = "StreamOffline" => result.count = offline_threshold
        /\ streak < offline_threshold => (pc = "poll" /\ result = NoResult)

(***************************************************************************)
(* C2: a tick that observes Online with a title containing "rerun" in any  *)
(* letter case ends the loop with StreamRerun(title), emits no persist and *)
(* no notify effect and leaves current_game (and the store) unchanged,     *)
(* whether or not the observed game differs from current_game.             *)
(***************************************************************************)
C2_Step ==
    (pc = "poll" /\ obs'.kind = "Online" /\ ContainsRerunAnyCase(obs'.title)) =>
        /\ pc' = "exited"
        /\ result' = StreamRerun(obs'.title)
        /\ NoEffects(persist_calls', notify_calls')
        /\ current_game' = current_game
        /\ kvstore' = kvstore

C2_RerunStopsWithoutEffects == [][C2_Step]_vars

C2_Witness ==
    /\ pc = "exited"
    /\ result = StreamRerun(<<"A", "n", "y", "%", " ", "R", "E", "R", "U", "N">>)
    /\ obs = OnlineObs("Celeste", <<"A", "n", "y", "%", " ", "R", "E", "R", "U", "N">>)
    /\ current_game = ""
    /\ NoEffects(persist_calls, notify_calls)

(***************************************************************************)
(* C3: a tick that observes Online with a title without "rerun": if the    *)
(* game equals current_game, no effect is emitted and offline_count        *)
(* becomes 0; if it differs, exactly one persist and exactly one notify    *)
(* effect are emitted, both carrying that game, current_game becomes that  *)
(* game, offline_count becomes 0 and the loop continues.                   *)
(***************************************************************************)
C3_QueryStep ==
    (pc = "poll" /\ obs'.kind = "Online" /\ ~ContainsRerunAnyCase(obs'.title)) =>
        IF obs'.game = current_game
        THEN /\ NoEffects(persist_calls', notify_calls')
             /\ offline_count' = 0
             /\ current_game' = current_game
             /\ kvstore' = kvstore
             /\ pc' = "poll"
        ELSE /\ pc' = "join"
             /\ NoEffects(persist_calls', notify_calls')

C3_JoinStep ==
    pc = "join" =>
        /\ obs.kind = "Online" /\ obs.game # current_game
        /\ persist_calls' \in {<<>>, <<obs.game>>}
        /\ notify_calls' \in {<<>>, <<[game |-> obs.game, title |-> obs.title]>>}
        /\ pc' # "join" =>
            /\ persist_calls' = <<obs.game>>
            /\ notify_calls' = <<[game |-> obs.game, title |-> obs.title]>>
            /\ current_game' = obs.game
            /\ offline_count' = 0
            /\ pc' = "poll"
            /\ result' = NoResult

C3_OnlineTick == [][C3_QueryStep /\ C3_JoinStep]_vars

\* a change was announced after the counter had left 0
C3_Witness ==
    /\ pc = "poll"
    /\ obs.kind = "Online"
    /\ persist_calls = <<obs.game>>
    /\ Len(notify_calls) = 1
    /\ current_game = "Chrono Trigger"
    /\ kvstore.present /\ kvstore.value = "Celeste"
    /\ offline_count = 0
    /\ offline_threshold = 2

(***************************************************************************)
(* C4: a tick that observes Offline increases offline_count by exactly 1,  *)
(* leaves current_game unchanged and emits no persist and no notify        *)
(* effect.                                                                 *)
(***************************************************************************)
C4_Step ==
    (pc = "poll" /\ obs'.kind = "Offline") =>
        /\ offline_count' = offline_count + 1
        /\ current_game' = current_game
        /\ NoEffects(persist_calls', notify_calls')
        /\ kvstore' = kvstore

C4_OfflineTick == [][C4_Step]_vars

C4_Witness ==
    /\ pc = "poll"
    /\ obs.kind = "Offline"
    /\ offline_count = 2
    /\ current_game = "Celeste"
    /\ NoEffects(persist_calls, notify_calls)

(***************************************************************************)
(* C5: on a game-change tick, whatever the outcome of the persist and of   *)
(* the notify, both effects are attempted, current_game is committed to    *)
(* the new game, offline_count is reset to 0, and the loop goes on to the  *)
(* next tick; no side-effect failure stops the loop.                       *)
(***************************************************************************)
C5_Step ==
    pc = "join" =>
        /\ pc' \in {"join", "poll"}
        /\ result' = NoResult
        /\ exit_code' = -1
        /\ pc' = "poll" =>
            /\ persist_result # "None" /\ notify_result # "None"
            /\ Len(persist_calls') = 1 /\ Len(notify_calls') = 1
            /\ current_game' = obs.game
            /\ offline_count' = 0

C5_SideEffectFailuresAbsorbed == [][C5_Step]_vars

\* both effects failed and the loop is at the next tick
C5_Witness ==
    /\ pc = "poll"
    /\ persist_result = "ReqwestError"
    /\ notify_result = "SerenityError"
    /\ Len(persist_calls) = 1 /\ Len(notify_calls) = 1
    /\ current_game = obs.game
    /\ kvstore # [present |-> TRUE, value |-> current_game]
    /\ offline_count = 0
    /\ result = NoResult

(***************************************************************************)
(* C6: if the startup read of the persisted game fails (store unreachable, *)
(* non-200 status, key absent, undecodable body), startup is not aborted:  *)
(* the poll loop starts, with current_game = "".                           *)
(***************************************************************************)
C6_Step ==
    (pc = "get_db" /\ db_read' \in {"unreachable", "non200", "undecodable"}) =>
        /\ pc' = "poll"
        /\ current_game' = ""
        /\ exit_code' = -1

C6_ReadFailureStartsLoop == [][C6_Step]_vars

(***************************************************************************)
(* C7: an error of the stream query is never treated as Offline: the loop  *)
(* stops on that tick with the query error, offline_count and current_game *)
(* are unchanged, no persist or notify effect is emitted, and no further   *)
(* query is issued.                                                        *)
(***************************************************************************)
C7_Step ==
    /\ (pc = "poll" /\ obs'.kind = "QueryError") =>
        /\ pc' = "exited"
        /\ result' = ErrorOf("HelixError")
        /\ offline_count' = offline_count
        /\ current_game' = current_game
        /\ NoEffects(persist_calls', notify_calls')
        /\ kvstore' = kvstore
    /\ (pc = "exited" /\ obs.kind = "QueryError") => UNCHANGED vars

C7_QueryErrorStopsLoop == [][C7_Step]_vars

\* the error came after an Offline observation and a known game
C7_Witness ==
    /\ pc = "exited"
    /\ obs.kind = "QueryError"
    /\ result.kind = "HelixError"
    /\ offline_count = 1
    /\ streak = 1
    /\ current_game = "Celeste"

(***************************************************************************)
(* C8: the exit status is 0 exactly when the loop stopped with             *)
(* StreamOffline or StreamRerun (after an Offline observation that reached *)
(* the threshold, or an Online observation whose title marks a rerun), and *)
(* non-zero when the loop stopped with a query error or startup failed.    *)
(***************************************************************************)
C8_ExitStatus ==
    /\ pc # "exited" => exit_code = -1
    /\ pc = "exited" =>
        /\ exit_code \in {0, 1}
        /\ exit_code = 0 <=> result.kind \in Graceful
        /\ exit_code = 0 <=>
              \/ obs.kind = "Offline"
              \/ obs.kind = "Online" /\ ContainsRerunAnyCase(obs.title)
        /\ (obs.kind \in {"QueryError", "None"}) => exit_code # 0
        /\ ~access_token => exit_code # 0

C8_Witness ==
    /\ pc = "exited"
    /\ exit_code = 0
    /\ result.kind = "StreamRerun"
    /\ offline_count = 1

(***************************************************************************)
(* C9: with ticks that keep firing and queries that return, if from some   *)
(* tick on every observation is Offline, or some observation is a rerun,   *)
(* the loop eventually stops with StreamOffline or StreamRerun.            *)
(***************************************************************************)
StoppedGracefully == pc = "exited" /\ result.kind \in Graceful

C9_EventuallyStops ==
    /\ (<>[](obs.kind = "Offline")) => <>StoppedGracefully
    /\ (obs.kind = "Online" /\ ContainsRerunAnyCase(obs.title)) ~> StoppedGracefully

\* stopped by the threshold after the game had been seen online
C9_Witness ==
    /\ StoppedGracefully
    /\ result = StreamOffline(3)
    /\ streak = 3
    /\ current_game = "Celeste"
    /\ kvstore = [present |-> TRUE, value |-> "Chrono Trigger"]

C11_Step ==
    /\ pc # "join" => NoEffects(persist_calls', notify_calls')
    /\ (pc = "poll" /\ pc' = "join") =>
          /\ obs'.kind = "Online"
          /\ obs'.game # current_game
    /\ (pc = "poll" /\ obs.kind = "Online" /\ obs' = obs) =>
          /\ pc' # "join"
          /\ kvstore' = kvstore
    /\ (pc = "join" /\ pc' # "join") =>
          Len(persist_calls') = 1 /\ Len(notify_calls') = 1

C11_EffectsOnlyOnChange == [][C11_Step]_vars

\* the observation of the tick before came again, after the tick that
\* announced the game had failed to save it: nothing is emitted
C11_Witness ==
    /\ pc = "poll"
    /\ same_as_last
    /\ obs.kind = "Online"
    /\ obs.game = current_game
    /\ NoEffects(persist_calls, notify_calls)
    /\ persist_failed
    /\ kvstore.value # current_game

(***************************************************************************)
(* C12 as stated: when the loop starts with current_game = "", the first   *)
(* Online non-rerun observation is treated as a change for every game the  *)
(* stream reports, the empty game name included.                           *)
(***************************************************************************)
FirstOnlineWithEmptyGame ==
    /\ pc = "poll"
    /\ current_game = ""
    /\ online_ticks = 0
    /\ obs'.kind = "Online"
    /\ ~ContainsRerunAnyCase(obs'.title)

C12_FirstOnlineAlwaysChange == [][FirstOnlineWithEmptyGame => pc' = "join"]_vars

(***************************************************************************)
(* C12 amended: when the loop starts with current_game = "", the first     *)
(* Online non-rerun observation is treated as a change exactly when its    *)
(* game is not the empty string, and then the tick emits one persist and   *)
(* one notify; an empty game name equals the stored value and emits        *)
(* nothing.                                                                *)
(***************************************************************************)
C12_Step ==
    /\ FirstOnlineWithEmptyGame =>
          IF obs'.game # ""
          THEN pc' = "join"
          ELSE pc' = "poll" /\ NoEffects(persist_calls', notify_calls')
    /\ (pc = "join" /\ pc' # "join") =>
          Len(persist_calls') = 1 /\ Len(notify_calls') = 1

C12_FirstOnlineChangeUnlessEmpty == [][C12_Step]_vars

\* the first Online observation, announced from the stored value ""
C12_Witness ==
    /\ pc = "poll"
    /\ online_ticks = 1
    /\ obs.kind = "Online" /\ obs.game = "Celeste"
    /\ current_game = "Celeste"
    /\ kvstore = [present |-> TRUE, value |-> ""]
    /\ persist_calls = <<"Celeste">>
    /\ Len(notify_calls) = 1

(***************************************************************************)
(* C13: a stop request raised between ticks is observed at the next tick   *)
(* boundary: the loop exits without a stream query and without any effect  *)
(* for that tick.                                                          *)
(***************************************************************************)
C13_Step ==
    (pc = "poll" /\ stop_requested) =>
        /\ pc' = "exited"
        /\ UNCHANGED <<obs, current_game, offline_count, kvstore,
                       persist_calls, notify_calls>>

C13_StopObservedAtTickBoundary == [][C13_Step]_vars

(***************************************************************************)
(* C14: the state built by GdqBot::new has offline_count = 0,              *)
(* current_game = "", no access token, and offline_threshold equal to      *)
(* OFFLINE_CHECK_COUNT when that is set to a number the u32 parser takes   *)
(* (in the model: one digit, with or without a leading "+"), otherwise 3.  *)
(***************************************************************************)
NumeralsOf(n) == {<<Digits[n + 1]>>, <<"+", Digits[n + 1]>>}

ConfiguredThreshold(env) ==
    IF env.set /\ \E n \in 0..9 : env.text \in NumeralsOf(n)
    THEN CHOOSE n \in 0..9 : env.text \in NumeralsOf(n)
    ELSE 3

C14_InitialState ==
    pc = "init_helix" =>
        /\ offline_count = 0
        /\ current_game = ""
        /\ ~access_token
        /\ offline_threshold = ConfiguredThreshold(OFFLINE_CHECK_COUNT)

C14_Witness ==
    /\ pc = "init_helix"
    /\ OFFLINE_CHECK_COUNT = [set |-> TRUE, text |-> <<"2">>]
    /\ offline_threshold = 2
    /\ offline_count = 0
    /\ current_game = ""
    /\ ~access_token

(***************************************************************************)
(* C15: every tick either resets offline_count to 0 or increments it by 1, *)
(* so that at the end of every tick offline_count is the number of         *)
(* consecutive Offline observations since the last Online one; every       *)
(* Online observation, a rerun included, leaves offline_count at 0.        *)
(***************************************************************************)
C15_CountIsStreak ==
    (pc \in {"poll", "exited"} /\ obs.kind \in {"Offline", "Online"}) =>
        offline_count = streak

(***************************************************************************)
(* C16: after startup seeding, current_game changes only on a tick whose   *)
(* observation is Online, non-rerun, with a game different from the stored *)
(* value, and it becomes exactly that game; every other step leaves        *)
(* current_game unchanged.                                                 *)
(***************************************************************************)
C16_Step ==
    /\ (pc \in {"poll", "join", "exited"} /\ current_game' # current_game) =>
          /\ pc = "join" /\ pc' = "poll"
          /\ obs.kind = "Online"
          /\ ~ContainsRerunAnyCase(obs.title)
          /\ obs.game # current_game
    /\ (pc = "join" /\ pc' = "poll") => current_game' = obs.game

C16_GameChangesOnlyOnChangeTick == [][C16_Step]_vars

\* the game changed a second time, after the first had been saved
C16_Witness ==
    /\ pc = "poll"
    /\ online_ticks = 2
    /\ obs.kind = "Online" /\ obs.game = "Chrono Trigger"
    /\ current_game = "Chrono Trigger"
    /\ kvstore = [present |-> TRUE, value |-> "Celeste"]
    /\ persist_result = "Other"
    /\ offline_threshold = 1

(***************************************************************************)
(* C17: for every accepted configuration value, offline_threshold is       *)
(* strictly positive at startup and keeps that value in every reachable    *)
(* state; a threshold of 0 is never in effect.                             *)
(***************************************************************************)
C17_ThresholdPositiveAndFixed ==
    /\ [](offline_threshold > 0)
    /\ [][offline_threshold' = offline_threshold]_vars

(***************************************************************************)
(* C18: within one game-change tick the persist and the notify are         *)
(* independent: each can run whatever the other did, each has the same     *)
(* effect (value written, message sent) whether it runs first or second    *)
(* and whatever the other's outcome, neither touches the other's state,    *)
(* and the state committed after both is the same in every order.          *)
(***************************************************************************)
C18_BothCanRun ==
    pc = "join" =>
        /\ persist_result = "None" => ENABLED SetCurrentGameToDb
        /\ notify_result = "None" => ENABLED SendGameChangeMessage

C18_Step ==
    pc = "join" =>
        /\ persist_result' # persist_result =>
              /\ persist_calls' = <<obs.game>>
              /\ kvstore' = IF persist_result' = "Ok"
                            THEN [present |-> TRUE, value |-> obs.game]
                            ELSE kvstore
              /\ UNCHANGED <<notify_result, notify_calls, attempted,
                             current_game, offline_count, pc>>
        /\ notify_result' # notify_result =>
              /\ notify_calls' = <<[game |-> obs.game, title |-> obs.title]>>
              /\ UNCHANGED <<persist_result, persist_calls, kvstore,
                             current_game, offline_count, pc>>
        /\ pc' # "join" =>
              /\ pc' = "poll"
              /\ current_game' = obs.game
              /\ offline_count' = 0
              /\ result' = NoResult
              /\ UNCHANGED <<persist_result, persist_calls, kvstore,
                             notify_result, notify_calls, attempted>>

C18_PersistNotifyIndependent == []C18_BothCanRun /\ [][C18_Step]_vars

\* the notify failed, the save went through, the tick was committed
C18_Witness ==
    /\ pc = "poll"
    /\ notify_result = "SerenityError"
    /\ persist_result = "Ok"
    /\ kvstore = [present |-> TRUE, value |-> current_game]
    /\ current_game = obs.game
    /\ notify_calls = <<[game |-> obs.game, title |-> obs.title]>>
    /\ offline_count = 0

(***************************************************************************)
(* C19: the poll loop never finishes with a success result: it is left     *)
(* only by StreamOffline, by StreamRerun or by a propagated query error,   *)
(* so the "finished normally" branch of main is never taken.               *)
(***************************************************************************)
C19_LoopNeverReturnsOk ==
    /\ pc = "exited" => result.kind # "None"
    /\ result.kind = "None" => exit_code = -1
    /\ (pc = "exited" /\ db_read = "ok") =>
          result.kind \in {"StreamOffline", "StreamRerun", "HelixError"}

C19_Witness ==
    /\ pc = "exited"
    /\ db_read = "ok"
    /\ result = StreamOffline(1)
    /\ offline_threshold = 1
    /\ exit_code = 0

(***************************************************************************)
(* C20: while every persist issued so far has succeeded (and the startup   *)
(* read succeeded, and nobody else writes the store), the store holds      *)
(* current_game at every tick boundary; a persist that fails leaves the    *)
(* stale value in the store, and no later tick issues the persist again    *)
(* while the observed game stays the same.                                 *)
(***************************************************************************)
C20_AtTickBoundary ==
    pc = "poll" =>
        /\ db_read = "ok"
        /\ ~persist_failed => kvstore = [present |-> TRUE, value |-> current_game]
        /\ obs.kind = "Online" => current_game = obs.game

C20_Step ==
    /\ (pc = "join" /\ persist_result = "None" /\
        persist_result' \in {"ReqwestError", "Other"}) => kvstore' = kvstore
    /\ (pc = "poll" /\ obs'.kind = "Online" /\ obs'.game = current_game) =>
          /\ pc' # "join"
          /\ kvstore' = kvstore
          /\ NoEffects(persist_calls', notify_calls')

C20_StoreFollowsMemory == []C20_AtTickBoundary /\ [][C20_Step]_vars

\* the save failed two Online observations ago; the game came again after
\* another observation and the store still holds the old value
C20_Witness ==
    /\ pc = "poll"
    /\ persist_failed
    /\ kvstore = [present |-> TRUE, value |-> "Chrono Trigger"]
    /\ current_game = "Celeste"
    /\ obs.kind = "Online" /\ obs.game = "Celeste"
    /\ ~same_as_last
    /\ NoEffects(persist_calls, notify_calls)

====
